---- MODULE Spec2Model ----
(***************************************************************************)
(* Model of the MNIST pointer-network notebook (P10_Attention.ipynb):      *)
(* the synthetic selection dataset MNISTAttentionDataset and the additive  *)
(* attention scorer AttentionModel.                                        *)
(*                                                                         *)
(* Python objects are modelled by what the interpreter holds: the corpus   *)
(* (mnist.data, mnist.targets), the dataset object (num_inputs, data),     *)
(* the state of numpy's global random generator, the model's parameters,   *)
(* the batch handed to the model (batch), the value or exception of the    *)
(* last call evaluated (ret), the accesses made to the dataset so far      *)
(* (trace), the locals of the notebook function being executed (frame)     *)
(* and the notebook's globals (session).                                   *)
(* Real numbers are fixed-point integers with FP units per 1.0.            *)
(***************************************************************************)
EXTENDS Integers, Sequences, FiniteSets, TLC

VARIABLES mnist, dataset, rng, model, batch, calls, ret, trace, frame, session

vars == <<mnist, dataset, rng, model, batch, calls, ret, trace, frame, session>>

----------------------------------------------------------------------------
(* Bounds of the model *)

MaxNumInputs == 3     \* num_inputs ranges over 0..MaxNumInputs
RngMod == 127         \* number of states of the random generator
FP == 8               \* fixed-point units per 1.0
ImgSide == 1          \* images are ImgSide x ImgSide (28 x 28 in MNIST)
MaxBatch == 2         \* batch sizes range over 1..MaxBatch
MaxInputDim == 2      \* vector lengths range over 1..MaxInputDim
HiddenDim == 2        \* hidden_dim of the models built
MaxCalls == 2         \* the count of repeated forward calls saturates here
NumWorkers == 2       \* callers of __getitem__ sharing the interpreter
MaxAccesses == 3      \* accesses recorded in trace
MaxIdx == 1           \* the callers request indices 0..MaxIdx
NumSeeds == 3         \* generator states the callers may start from
MaxLoaderBatch == 7   \* batch sizes of the loaders range over 1..MaxLoaderBatch
NumEpochs == 2        \* epochs (10 in the notebook)
MaxCells == 2         \* runs of the training cell and calls of evaluate
MaxLayers == 2        \* linear layers of the FCModel built

(* Program constants *)

NumClasses == 10      \* range(10), [0,1,...,9], % 10
PixelMax == 255       \* / 255.0

----------------------------------------------------------------------------
(* Generic helpers *)

RECURSIVE Concat(_)
Concat(ss) == IF ss = <<>> THEN <<>> ELSE Head(ss) \o Concat(Tail(ss))

NoValue == [none |-> TRUE]

\* no notebook function is being executed
NoFrame == [fn |-> "none"]

\* the training and evaluation cells have not been set up
NoSession == [ready |-> FALSE, notebook |-> "none"]

Returned(op, args, val) == [op |-> op, args |-> args, exc |-> "none", val |-> val]

----------------------------------------------------------------------------
(* The source corpus: torchvision.datasets.MNIST *)

\* an image whose pixels all have value p
Image(p) == [r \in 1..ImgSide |-> [col \in 1..ImgSide |-> p]]

\* tensor.flatten(): rows concatenated in order
flatten(img) == Concat(img)

\* tensor / 255.0, elementwise on a flat vector, in fixed point
Normalise(v) == [k \in 1..Len(v) |-> (v[k] * FP) \div PixelMax]

\* the labels of the full corpus: every class once, classes 0, 1 and 6 twice
FullTargets == <<0, 1, 2, 3, 4, 5, 6, 7, 8, 9, 0, 1, 6>>

\* the pixel value of the k-th corpus image
PixelOf(k) == CASE k % 3 = 0 -> 0
                [] k % 3 = 1 -> PixelMax
                [] OTHER     -> 128

\* the corpora the dataset is built from: the full one, and ones lacking classes
MissingSets == {{}, {0}, {6}, {0, 1, 6}}

Corpus(missing) ==
    LET keep == SelectSeq([k \in 1..Len(FullTargets) |-> k],
                          LAMBDA k : FullTargets[k] \notin missing)
    IN [targets |-> [k \in 1..Len(keep) |-> FullTargets[keep[k]]],
        data    |-> [k \in 1..Len(keep) |-> Image(PixelOf(keep[k]))]]

----------------------------------------------------------------------------
(* numpy's global random generator (np.random), as a small congruential     *)
(* generator: every draw advances the state and is a function of it.        *)

RngNext(s) == (11 * s + 5) % RngMod

\* np.random.randint(low, high): ValueError when low >= high, before any draw
randint(low, high, s) ==
    IF low >= high
    THEN [exc |-> "ValueError", val |-> 0, rng |-> s]
    ELSE [exc |-> "none", val |-> low + (RngNext(s) % (high - low)), rng |-> RngNext(s)]

\* np.random.choice(list): one uniform draw of a position of the list
choice(list, s) ==
    IF Len(list) = 0
    THEN [exc |-> "ValueError", val |-> 0, rng |-> s]
    ELSE LET r == randint(0, Len(list), s)
         IN [exc |-> "none", val |-> list[r.val + 1], rng |-> r.rng]

----------------------------------------------------------------------------
(* class MNISTAttentionDataset *)

NoDataset == [built |-> FALSE, num_inputs |-> 0, data |-> <<>>]

\* self.mnist.data[self.mnist.targets == label] / 255.0
\* (each pool item keeps the corpus position it was taken from, item)
\* faulty variant: the mask is targets <= label
PoolOf_upto(m, label) ==
    LET rows == SelectSeq([k \in 1..Len(m.targets) |-> k],
                          LAMBDA k : m.targets[k] <= label)
    IN [i \in 1..Len(rows) |->
           [item |-> rows[i] - 1,
            px   |-> [r \in 1..ImgSide |-> Normalise(m.data[rows[i]][r])]]]

PoolOf(m, label) ==
    LET rows == SelectSeq([k \in 1..Len(m.targets) |-> k],
                          LAMBDA k : m.targets[k] = label)
    IN [i \in 1..Len(rows) |->
           [item |-> rows[i] - 1,
            px   |-> [r \in 1..ImgSide |-> Normalise(m.data[rows[i]][r])]]]

\* the object __init__ leaves: num_inputs as given, one pool per label
NewDataset(m, num_inputs) ==
    [built |-> TRUE,
     num_inputs |-> num_inputs,
     data |-> [label \in 0..(NumClasses - 1) |-> PoolOf(m, label)]]

\* __init__(self, num_inputs, train)
MNISTAttentionDataset_init(num_inputs) ==
    /\ dataset' = NewDataset(mnist, num_inputs)
    /\ ret' = Returned("__init__", <<num_inputs>>, NoValue)
    /\ UNCHANGED <<mnist, rng, model, batch, calls, trace, frame, session>>

\* self.mnist.data.shape[0]
MNISTAttentionDataset_lenOf(m) == Len(m.data)

\* __len__(self)
MNISTAttentionDataset_len ==
    /\ dataset.built
    /\ ret' = Returned("__len__", <<>>, MNISTAttentionDataset_lenOf(mnist))
    /\ UNCHANGED <<mnist, dataset, rng, model, batch, calls, trace, frame, session>>

\* faulty variant: the query's own class is excluded as well
DistractorClasses_noquery(c) ==
    SelectSeq([k \in 1..NumClasses |-> k - 1],
              LAMBDA n : n # (c + 1) % NumClasses /\ n # c % NumClasses)

\* [n for n in [0,...,9] if n != (c+1)%10]
\* faulty variant: the class excluded is c, not (c+1)%10
DistractorClasses_own(c) ==
    SelectSeq([k \in 1..NumClasses |-> k - 1], LAMBDA n : n # c % NumClasses)

DistractorClasses(c) ==
    SelectSeq([k \in 1..NumClasses |-> k - 1], LAMBDA n : n # (c + 1) % NumClasses)

\* (c+1)%10: the class the candidate at correct_pos is drawn from
\* faulty variant: the target is drawn from the query's own class
TargetClass_own(c) == c % NumClasses

TargetClass(c) == (c + 1) % NumClasses

\* idx = np.random.randint(0, pool.shape[0]); inputs[j,:] = pool[idx,:].flatten()
\* faulty variant: an empty pool leaves the row of zeros, silently
DrawFrom_silent(pool, s) ==
    LET idx == randint(0, Len(pool), s)
    IN IF idx.exc # "none"
       THEN [exc |-> "none",
             row |-> [item |-> -1, px |-> [k \in 1..(ImgSide * ImgSide) |-> 0]],
             rng |-> idx.rng]
       ELSE [exc |-> "none",
             row |-> [item |-> pool[idx.val + 1].item,
                      px   |-> flatten(pool[idx.val + 1].px)],
             rng |-> idx.rng]

DrawFrom(pool, s) ==
    LET idx == randint(0, Len(pool), s)
    IN IF idx.exc # "none"
       THEN [exc |-> idx.exc, row |-> NoValue, rng |-> idx.rng]
       ELSE [exc |-> "none",
             row |-> [item |-> pool[idx.val + 1].item,
                      px   |-> flatten(pool[idx.val + 1].px)],
             rng |-> idx.rng]

\* the loop over j of __getitem__, from position j on
RECURSIVE FillInputs(_, _, _, _, _, _)
FillInputs(ds, c, correct_pos, j, inputs, s) ==
    IF j >= ds.num_inputs
    THEN [exc |-> "none", inputs |-> inputs, rng |-> s]
    ELSE IF j = correct_pos
    THEN LET drawn == DrawFrom(ds.data[TargetClass(c)], s)
         IN IF drawn.exc # "none"
            THEN [exc |-> drawn.exc, inputs |-> inputs, rng |-> drawn.rng]
            ELSE FillInputs(ds, c, correct_pos, j + 1,
                            [inputs EXCEPT ![j + 1] = drawn.row], drawn.rng)
    ELSE LET c_distractor == choice(DistractorClasses(c), s)
             drawn == DrawFrom(ds.data[c_distractor.val], c_distractor.rng)
         IN IF drawn.exc # "none"
            THEN [exc |-> drawn.exc, inputs |-> inputs, rng |-> drawn.rng]
            ELSE FillInputs(ds, c, correct_pos, j + 1,
                            [inputs EXCEPT ![j + 1] = drawn.row], drawn.rng)

\* np.zeros((self.num_inputs, 784))
ZeroInputs(n) == [j \in 1..n |-> [item |-> -1, px |-> [k \in 1..(ImgSide * ImgSide) |-> 0]]]

\* faulty variant: the query is read one corpus item further on
QueryOf_other(m, pos) == Normalise(flatten(m.data[(pos % Len(m.targets)) + 1]))

\* query = self.mnist.data[idx].flatten() / 255.0
QueryOf(m, pos) == Normalise(flatten(m.data[pos]))

\* faulty variant: the upper bound of the draw is taken as inclusive
CorrectPos_short(ds, s) == randint(0, ds.num_inputs - 1, s)

\* correct_pos = np.random.randint(0, self.num_inputs)
CorrectPos(ds, s) == randint(0, ds.num_inputs, s)

\* the result of __getitem__(idx) on dataset ds from generator state s
GetItemResult(m, ds, idx, s) ==
    LET n == Len(m.targets)
    IN IF idx < -n \/ idx >= n
       THEN [exc |-> "IndexError", val |-> NoValue, rng |-> s]
       ELSE LET pos   == IF idx < 0 THEN idx + n + 1 ELSE idx + 1
                c     == m.targets[pos]
                query == QueryOf(m, pos)
                correct_pos == CorrectPos(ds, s)
            IN IF correct_pos.exc # "none"
               THEN [exc |-> correct_pos.exc, val |-> NoValue, rng |-> correct_pos.rng]
               ELSE LET filled == FillInputs(ds, c, correct_pos.val, 0,
                                             ZeroInputs(ds.num_inputs), correct_pos.rng)
                    IN IF filled.exc # "none"
                       THEN [exc |-> filled.exc, val |-> NoValue, rng |-> filled.rng]
                       ELSE [exc |-> "none",
                             val |-> [x |-> filled.inputs, query |-> query,
                                      y |-> correct_pos.val],
                             rng |-> filled.rng]

\* faulty variant: the item drawn as the target is taken out of its pool
MNISTAttentionDataset_getitem_pop(idx) ==
    /\ dataset.built
    /\ LET r == GetItemResult(mnist, dataset, idx, rng)
       IN /\ rng' = r.rng
          /\ ret' = [op |-> "__getitem__", args |-> <<idx>>, exc |-> r.exc, val |-> r.val]
          /\ dataset' =
                IF r.exc # "none" THEN dataset
                ELSE LET t == r.val.x[r.val.y + 1].item
                         k == mnist.targets[t + 1]
                     IN [dataset EXCEPT !.data[k] =
                            SelectSeq(dataset.data[k], LAMBDA e : e.item # t)]
    /\ UNCHANGED <<mnist, model, batch, calls, trace, frame, session>>

\* __getitem__(self, idx)
MNISTAttentionDataset_getitem(idx) ==
    /\ dataset.built
    /\ LET r == GetItemResult(mnist, dataset, idx, rng)
       IN /\ rng' = r.rng
          /\ ret' = [op |-> "__getitem__", args |-> <<idx>>, exc |-> r.exc, val |-> r.val]
    /\ UNCHANGED <<mnist, dataset, model, batch, calls, trace, frame, session>>

----------------------------------------------------------------------------
(* torch tensors: a shape and the elements in row-major order *)

RECURSIVE Numel(_)
Numel(shape) == IF shape = <<>> THEN 1 ELSE Head(shape) * Numel(Tail(shape))

Tensor(shape, data) == [shape |-> shape, data |-> data]

Ok(val)  == [exc |-> "none", val |-> val]
Err(exc) == [exc |-> exc, val |-> NoValue]

\* element (b, i, d) of a rank-3 tensor, zero-based
At3(t, b, i, d) == t.data[(b * t.shape[2] + i) * t.shape[3] + d + 1]

\* the indices (b, i, d) of the k-th element of a tensor of shape (B, N, D)
Ix1(k, N, D) == (k - 1) \div (N * D)
Ix2(k, N, D) == ((k - 1) \div D) % N
Ix3(k, D) == (k - 1) % D

\* query.unsqueeze(1): (B, D) -> (B, 1, D)
unsqueeze1(t) == Tensor(<<t.shape[1], 1, t.shape[2]>>, t.data)

\* t.repeat(1, n, 1) on a rank-3 tensor: dimension 1 tiled n times
\* faulty variant: the query is not tiled
repeat1_none(t, n) == t

repeat1(t, n) ==
    LET f(b, i, d) == At3(t, b, i % t.shape[2], d)
    IN Tensor(<<t.shape[1], t.shape[2] * n, t.shape[3]>>,
              [k \in 1..((t.shape[1]) * (t.shape[2] * n) * (t.shape[3])) |->
                  f(Ix1(k, t.shape[2] * n, t.shape[3]), Ix2(k, t.shape[2] * n, t.shape[3]), Ix3(k, t.shape[3]))])

\* t.squeeze(): every dimension of size 1 is removed
squeeze(t) == Tensor(SelectSeq(t.shape, LAMBDA n : n # 1), t.data)

\* division of fixed-point numbers, rounded to the nearest
RoundDiv(a, b) == (2 * a + b) \div (2 * b)

\* tanh of a fixed-point number: odd, increasing, saturating at -1.0 and 1.0
\* (the rational approximant x (27 + x^2) / (27 + 9 x^2), clamped)
TanhPos(x) ==
    LET r == RoundDiv(x * (27 * FP * FP + x * x), 27 * FP * FP + 9 * x * x)
    IN IF r > FP THEN FP ELSE r

Tanh(x) == IF x >= 0 THEN TanhPos(x) ELSE 0 - TanhPos(0 - x)

\* torch.tanh(t), elementwise
tanh(t) == Tensor(t.shape, [k \in 1..Len(t.data) |-> Tanh(t.data[k])])

RECURSIVE Dot(_, _, _)
Dot(w, v, d) == IF d = 0 THEN 0 ELSE w[d] * v[d] + Dot(w, v, d - 1)

\* nn.Linear applied to one vector: weight . v + bias
Affine(layer, v) ==
    [h \in 1..Len(layer.weight) |->
        RoundDiv(Dot(layer.weight[h], v, Len(v)), FP) + layer.bias[h]]

\* nn.Linear(in_features, out_features) applied to a rank-3 tensor:
\* RuntimeError unless the last dimension is in_features
\* faulty variant: the last dimension is not checked
Linear_unchecked(layer, t) ==
    LET in_features  == Len(layer.weight[1])
        out_features == Len(layer.weight)
        D == IF t.shape[3] < in_features THEN t.shape[3] ELSE in_features
        vec(b, i) == [d \in 1..D |-> At3(t, b, i, d - 1)]
        f(b, i, h) == RoundDiv(Dot(layer.weight[h + 1], vec(b, i), D), FP)
                      + layer.bias[h + 1]
    IN Ok(Tensor(<<t.shape[1], t.shape[2], out_features>>,
              [k \in 1..((t.shape[1]) * (t.shape[2]) * (out_features)) |->
                  f(Ix1(k, t.shape[2], out_features), Ix2(k, t.shape[2], out_features), Ix3(k, out_features))]))

Linear(layer, t) ==
    LET in_features  == Len(layer.weight[1])
        out_features == Len(layer.weight)
        D == t.shape[3]
        vec(b, i) == [d \in 1..D |-> At3(t, b, i, d - 1)]
        f(b, i, h) == Affine(layer, vec(b, i))[h + 1]
    IN IF D # in_features
       THEN Err("RuntimeError")
       ELSE Ok(Tensor(<<t.shape[1], t.shape[2], out_features>>,
              [k \in 1..((t.shape[1]) * (t.shape[2]) * (out_features)) |->
                  f(Ix1(k, t.shape[2], out_features), Ix2(k, t.shape[2], out_features), Ix3(k, out_features))]))

\* the size two broadcast dimensions give, 0 - 1 when they do not broadcast
BroadcastDim(m, n) ==
    IF m = n THEN m ELSE IF m = 1 THEN n ELSE IF n = 1 THEN m ELSE 0 - 1

\* a + b on rank-3 tensors, with broadcasting of the dimensions of size 1
\* faulty variant: every position is summed with the first row of b
Add_first(a, b) ==
    LET B == BroadcastDim(a.shape[1], b.shape[1])
        N == BroadcastDim(a.shape[2], b.shape[2])
        D == BroadcastDim(a.shape[3], b.shape[3])
        ix(t, k, n) == IF t.shape[n] = 1 THEN 0 ELSE k
        f(i, j, d) == At3(a, ix(a, i, 1), ix(a, j, 2), ix(a, d, 3))
                      + At3(b, ix(b, i, 1), 0, ix(b, d, 3))
    IN IF B < 0 \/ N < 0 \/ D < 0 THEN Err("RuntimeError")
       ELSE Ok(Tensor(<<B, N, D>>,
              [k \in 1..((B) * (N) * (D)) |->
                  f(Ix1(k, N, D), Ix2(k, N, D), Ix3(k, D))]))

Add(a, b) ==
    LET B == BroadcastDim(a.shape[1], b.shape[1])
        N == BroadcastDim(a.shape[2], b.shape[2])
        D == BroadcastDim(a.shape[3], b.shape[3])
        ix(t, k, n) == IF t.shape[n] = 1 THEN 0 ELSE k
        f(i, j, d) == At3(a, ix(a, i, 1), ix(a, j, 2), ix(a, d, 3))
                      + At3(b, ix(b, i, 1), ix(b, j, 2), ix(b, d, 3))
    IN IF B < 0 \/ N < 0 \/ D < 0 THEN Err("RuntimeError")
       ELSE Ok(Tensor(<<B, N, D>>,
              [k \in 1..((B) * (N) * (D)) |->
                  f(Ix1(k, N, D), Ix2(k, N, D), Ix3(k, D))]))

----------------------------------------------------------------------------
(* class AttentionModel *)

NoModel == [built |-> FALSE]

NumInits == 3     \* the parameter initialisations nn.Linear may draw

\* the weight and bias nn.Linear(in_features, out_features) is initialised to;
\* w selects one of the random initialisations, k tells the layers apart
InitLinear(w, k, in_features, out_features) ==
    [weight |-> [h \in 1..out_features |->
                    [d \in 1..in_features |->
                        (((w + k + h + 2 * d) % 5) - 2) * (FP \div 2)]],
     bias   |-> [h \in 1..out_features |->
                    IF w = 1 THEN 0 ELSE (((w + k + h) % 3) - 1) * (FP \div 4)]]

\* the module __init__ leaves: the three linear layers, initialised
NewModel(input_dim, num_inputs, hidden_dim, w) ==
    [built |-> TRUE,
     hidden_dim |-> hidden_dim,
     num_inputs |-> num_inputs,
     input_dim  |-> input_dim,
     fc_q |-> InitLinear(w, 0, input_dim, hidden_dim),
     fc_k |-> InitLinear(w, 1, input_dim, hidden_dim),
     fc_v |-> InitLinear(w, 2, hidden_dim, 1)]

\* __init__(self, input_dim, num_inputs, hidden_dim)
AttentionModel_init(input_dim, num_inputs, hidden_dim, w) ==
    /\ model' = NewModel(input_dim, num_inputs, hidden_dim, w)
    /\ calls' = 0
    /\ ret' = Returned("__init__", <<input_dim, num_inputs, hidden_dim>>, NoValue)
    /\ UNCHANGED <<mnist, dataset, rng, batch, trace, frame, session>>

\* scoringAdditive(self, query, keys)
\* faulty variant: the tanh of the sum is left out
scoringAdditive_notanh(self, query, keys) ==
    LET query1 == repeat1(query, self.num_inputs)
        query2 == Linear(self.fc_q, query1)
        keys2  == Linear(self.fc_k, keys)
    IN IF query2.exc # "none" THEN query2
       ELSE IF keys2.exc # "none" THEN keys2
       ELSE LET sum == Add(tanh(query2.val), tanh(keys2.val))
            IN IF sum.exc # "none" THEN sum
               ELSE Linear(self.fc_v, sum.val)

scoringAdditive(self, query, keys) ==
    LET query1 == repeat1(query, self.num_inputs)
        query2 == Linear(self.fc_q, query1)
        keys2  == Linear(self.fc_k, keys)
    IN IF query2.exc # "none" THEN query2
       ELSE IF keys2.exc # "none" THEN keys2
       ELSE LET sum == Add(tanh(query2.val), tanh(keys2.val))
            IN IF sum.exc # "none" THEN sum
               ELSE Linear(self.fc_v, tanh(sum.val))

\* forward(self, x, query), as a function of the parameters and the inputs
ForwardResult(self, x, query) ==
    LET output == scoringAdditive(self, unsqueeze1(query), x)
    IN IF output.exc # "none" THEN output ELSE Ok(squeeze(output.val))

\* forward(self, x, query)
\* faulty variant: every call moves a parameter
forward_stateful(x, query) ==
    /\ model.built
    /\ LET r == ForwardResult(model, x, query)
       IN ret' = [op |-> "forward", args |-> <<x, query>>, exc |-> r.exc, val |-> r.val]
    /\ model' = [model EXCEPT !.fc_v.bias[1] = (@ + 1) % FP]
    /\ calls' = IF ret.op = "forward" /\ ret.args = <<x, query>>
                THEN (IF calls < MaxCalls THEN calls + 1 ELSE calls)
                ELSE 1
    /\ UNCHANGED <<mnist, dataset, rng, batch, trace, frame, session>>

forward(x, query) ==
    /\ model.built
    /\ LET r == ForwardResult(model, x, query)
       IN ret' = [op |-> "forward", args |-> <<x, query>>, exc |-> r.exc, val |-> r.val]
    /\ calls' = IF ret.op = "forward" /\ ret.args = <<x, query>>
                THEN (IF calls < MaxCalls THEN calls + 1 ELSE calls)
                ELSE 1
    /\ UNCHANGED <<mnist, dataset, rng, model, batch, trace, frame, session>>

----------------------------------------------------------------------------
(* The inputs the scorer is called with *)

NumPatterns == 3

\* sample_batched['x']: B x N candidate vectors of length D
Candidates(p, B, N, D) ==
    LET f(b, i, d) == ((p * (b + i) + d + b) % 3) * (FP \div 2)
    IN Tensor(<<B, N, D>>,
              [k \in 1..((B) * (N) * (D)) |->
                  f(Ix1(k, N, D), Ix2(k, N, D), Ix3(k, D))])

\* sample_batched['query']: B query vectors of length D
Queries(p, B, D) ==
    Tensor(<<B, D>>, [k \in 1..(B * D) |-> ((p + k) % 2) * FP])

NoBatch == [x |-> Tensor(<<0, 0, 0>>, <<>>), query |-> Tensor(<<0, 0>>, <<>>)]

----------------------------------------------------------------------------
InitDataset ==
    /\ \E missing \in MissingSets : mnist = Corpus(missing)
    /\ dataset = NoDataset
    /\ rng \in 0..(RngMod - 1)
    /\ model = NoModel
    /\ batch = NoBatch
    /\ calls = 0
    /\ ret = Returned("start", <<>>, NoValue)
    /\ trace = <<>>
    /\ frame = NoFrame
    /\ session = NoSession

NextDataset ==
    \/ \E num_inputs \in 0..MaxNumInputs : MNISTAttentionDataset_init(num_inputs)
    \/ MNISTAttentionDataset_len
    \/ \E idx \in -1..Len(mnist.targets) : MNISTAttentionDataset_getitem(idx)

SpecDataset == InitDataset /\ [][NextDataset]_vars

InitScorer ==
    /\ mnist = Corpus({})
    /\ dataset = NoDataset
    /\ rng = 0
    /\ model = NoModel
    /\ \E B \in 1..MaxBatch, N \in 0..MaxNumInputs, D \in 1..MaxInputDim,
          Dq \in 1..MaxInputDim, p \in 1..NumPatterns :
          batch = [x |-> Candidates(p, B, N, D), query |-> Queries(p, B, Dq)]
    /\ calls = 0
    /\ ret = Returned("start", <<>>, NoValue)
    /\ trace = <<>>
    /\ frame = NoFrame
    /\ session = NoSession

NextScorer ==
    \/ \E input_dim \in 1..MaxInputDim, num_inputs \in 1..MaxNumInputs, w \in 1..NumInits :
          AttentionModel_init(input_dim, num_inputs, HiddenDim, w)
    \/ forward(batch.x, batch.query)

SpecScorer == InitScorer /\ [][NextScorer]_vars

----------------------------------------------------------------------------
(* Several callers of __getitem__ in one interpreter, as the iterators of   *)
(* train_loader and test_loader are: both loaders are created without       *)
(* worker processes, so every call draws from the one np.random state.      *)

Workers == 1..NumWorkers

\* faulty variant: the candidates and position of the caller's previous
\* sample are handed out again, only the query is read anew
Worker_getitem_reuse(w, idx) ==
    /\ dataset.built
    /\ Len(trace) < MaxAccesses
    /\ LET r    == GetItemResult(mnist, dataset, idx, rng)
           mine == SelectSeq(trace, LAMBDA a : a.w = w /\ a.exc = "none")
           val  == IF r.exc = "none" /\ mine # <<>>
                   THEN [r.val EXCEPT !.x = mine[Len(mine)].val.x,
                                      !.y = mine[Len(mine)].val.y]
                   ELSE r.val
       IN /\ rng' = IF r.exc = "none" /\ mine # <<>> THEN rng ELSE r.rng
          /\ ret' = [op |-> "__getitem__", args |-> <<idx>>, exc |-> r.exc, val |-> val]
          /\ trace' = Append(trace, [w |-> w, idx |-> idx, at |-> rng,
                                     exc |-> r.exc, val |-> val])
    /\ UNCHANGED <<mnist, dataset, model, batch, calls, frame, session>>

\* caller w evaluates dataset[idx]; trace records the access together with
\* the state the generator was in when it was made
Worker_getitem(w, idx) ==
    /\ dataset.built
    /\ Len(trace) < MaxAccesses
    /\ LET r == GetItemResult(mnist, dataset, idx, rng)
       IN /\ rng' = r.rng
          /\ ret' = [op |-> "__getitem__", args |-> <<idx>>, exc |-> r.exc, val |-> r.val]
          /\ trace' = Append(trace, [w |-> w, idx |-> idx, at |-> rng,
                                     exc |-> r.exc, val |-> r.val])
    /\ UNCHANGED <<mnist, dataset, model, batch, calls, frame, session>>

InitWorkers ==
    /\ mnist = Corpus({})
    /\ \E num_inputs \in 1..MaxNumInputs : dataset = NewDataset(mnist, num_inputs)
    /\ rng \in 0..(NumSeeds - 1)
    /\ model = NoModel
    /\ batch = NoBatch
    /\ calls = 0
    /\ ret = Returned("start", <<>>, NoValue)
    /\ trace = <<>>
    /\ frame = NoFrame
    /\ session = NoSession

NextWorkers ==
    \E w \in Workers, idx \in 0..MaxIdx : Worker_getitem(w, idx)

SpecWorkers == InitWorkers /\ [][NextWorkers]_vars

----------------------------------------------------------------------------
(* The loaders: DataLoader(dataset, batch_size, shuffle)                    *)

\* len(loader): the number of batches, the last one possibly partial
LoaderLen(n, batch_size) == (n + batch_size - 1) \div batch_size

\* the order in which a loader's iterator visits the n items: a loader that
\* does not shuffle goes through 0..n-1, the sampler of a shuffling loader
\* draws a permutation from torch's generator, here in state t (two
\* permutations are kept: ascending and descending)
SamplerOrder(n, shuffle, t) ==
    IF shuffle /\ RngNext(t) % 2 = 1
    THEN [k \in 1..n |-> n - k]
    ELSE [k \in 1..n |-> k - 1]

\* the indices of batch number batch_idx (from 0)
BatchIndices(order, batch_size, batch_idx) ==
    SubSeq(order, batch_idx * batch_size + 1,
           IF (batch_idx + 1) * batch_size < Len(order)
           THEN (batch_idx + 1) * batch_size ELSE Len(order))

\* dataset[i] for each index of the batch in turn, from generator state s
RECURSIVE FetchSamples(_, _, _, _, _)
FetchSamples(m, ds, idxs, s, acc) ==
    IF idxs = <<>>
    THEN [exc |-> "none", samples |-> acc, rng |-> s]
    ELSE LET r == GetItemResult(m, ds, Head(idxs), s)
         IN IF r.exc # "none"
            THEN [exc |-> r.exc, samples |-> acc, rng |-> r.rng]
            ELSE FetchSamples(m, ds, Tail(idxs), r.rng, Append(acc, r.val))

\* default_collate: the samples' fields stacked along a new first dimension
Collate(samples, N, D) ==
    [x     |-> Tensor(<<Len(samples), N, D>>,
                      Concat([b \in 1..Len(samples) |->
                                Concat([j \in 1..N |-> samples[b].x[j].px])])),
     query |-> Tensor(<<Len(samples), D>>,
                      Concat([b \in 1..Len(samples) |-> samples[b].query])),
     y     |-> [b \in 1..Len(samples) |-> samples[b].y]]

----------------------------------------------------------------------------
(* The loss, the gradients and the optimizer. Autograd and Adam are library *)
(* code: a gradient is represented by the batches whose loss was            *)
(* back-propagated into it since it was last cleared, and a step of the     *)
(* optimizer by a move of one parameter.                                    *)

\* row b (from 1) of a (B, N) matrix of scores
ScoreRow(output, b) ==
    [j \in 1..output.shape[2] |-> output.data[(b - 1) * output.shape[2] + j]]

\* the largest entry of a non-empty vector
RECURSIVE MaxOf(_)
MaxOf(v) == IF Len(v) = 1 THEN v[1]
            ELSE LET rest == MaxOf(Tail(v))
                 IN IF v[1] >= rest THEN v[1] ELSE rest

\* nn.CrossEntropyLoss()(output, target): defined for a (B, C) matrix of
\* scores and B class indices; the value is the batch mean of
\* logsumexp(row) - row[target], with logsumexp taken at its leading term
CrossEntropyLoss(output, target) ==
    IF Len(output.shape) # 2 \/ output.shape[1] # Len(target)
    THEN Err("ShapeError")
    ELSE LET B == Len(target)
             term(b) == MaxOf(ScoreRow(output, b)) - ScoreRow(output, b)[target[b] + 1]
             total[b \in 0..B] == IF b = 0 THEN 0 ELSE total[b - 1] + term(b)
         IN Ok(RoundDiv(total[B], B))

\* np.argmax(output, axis=1): per row, the first position of the largest
\* entry; AxisError for an array of fewer than two dimensions
ArgMaxAxis1(output) ==
    IF Len(output.shape) < 2
    THEN Err("AxisError")
    ELSE Ok([b \in 1..output.shape[1] |->
               LET row == ScoreRow(output, b)
               IN (CHOOSE j \in 1..Len(row) :
                      /\ row[j] = MaxOf(row)
                      /\ \A i \in 1..(j - 1) : row[i] # MaxOf(row)) - 1])

\* optimizer.step(): the parameters move when a gradient is there
AdamStep(self, grad) ==
    IF grad = <<>> THEN self
    ELSE [self EXCEPT !.fc_v.weight[1][1] = @ - 1]

----------------------------------------------------------------------------
(* The training and evaluation cells. frame holds the locals and the        *)
(* position (pc: the statement to execute next) of the call of train or     *)
(* evaluate in progress; session holds the notebook's globals: the batch    *)
(* sizes of the loaders, the gradients, the loss history, and log, the      *)
(* statements the current call of train has executed, batch by batch.       *)

\* the errors nn.CrossEntropyLoss raises for scores that are not (B, C),
\* depending on the version of the library
LossErrors == {"RuntimeError", "ValueError"}

\* the locals of train(...) at its first statement, the iterator created
TrainFrame(order) ==
    [fn |-> "train", pc |-> "for", order |-> order, batch_idx |-> 0,
     sample_batched |-> NoValue, output |-> NoValue, loss |-> 0,
     loss_values |-> <<>>]

\* the locals of evaluate(...) at its loop
EvaluateFrame(order) ==
    [fn |-> "evaluate", pc |-> "for", order |-> order, batch_idx |-> 0,
     sample_batched |-> NoValue, output |-> NoValue, pred |-> <<>>,
     total |-> 0, ok |-> 0]

\* an exception leaves the function and ends the cell that called it
Raise(op, exc) ==
    /\ ret' = [op |-> op, args |-> <<>>, exc |-> exc, val |-> NoValue]
    /\ frame' = NoFrame
    /\ session' = [session EXCEPT !.cell = "none"]

Logged(op) == Append(session.log, [batch |-> frame.batch_idx, op |-> op])

\* the training cell is run: optimizer = optim.Adam(...), loss_history = [],
\* and train is called for epoch 1 (model.train(), loss_values = [])
TrainingCell_run ==
    /\ session.ready
    /\ frame.fn = "none"
    /\ session.cell = "none"
    /\ session.cells < MaxCells
    /\ frame' = TrainFrame(SamplerOrder(MNISTAttentionDataset_lenOf(mnist), TRUE,
                                        session.torch_rng))
    /\ session' = [session EXCEPT !.cell = "training", !.cells = @ + 1,
                                  !.epoch = 1, !.loss_history = <<>>,
                                  !.steps = 0, !.training = TRUE, !.log = <<>>,
                                  !.torch_rng = RngNext(@)]
    /\ UNCHANGED <<mnist, dataset, rng, model, batch, calls, ret, trace>>

\* for batch_idx, sample_batched in enumerate(train_loader): the next batch
\* is fetched, or the loop is left
train_for ==
    /\ frame.fn = "train"
    /\ frame.pc = "for"
    /\ LET idxs == BatchIndices(frame.order, session.train_bs, frame.batch_idx)
           got  == FetchSamples(mnist, dataset, idxs, rng, <<>>)
       IN IF idxs = <<>>
          THEN /\ frame' = [frame EXCEPT !.pc = "return"]
               /\ UNCHANGED <<rng, ret, session>>
          ELSE IF got.exc # "none"
          THEN /\ rng' = got.rng
               /\ Raise("train", got.exc)
          ELSE /\ rng' = got.rng
               /\ frame' = [frame EXCEPT
                     !.pc = "zero_grad",
                     !.sample_batched =
                         Collate(got.samples, dataset.num_inputs, ImgSide * ImgSide)]
               /\ UNCHANGED <<ret, session>>
    /\ UNCHANGED <<mnist, dataset, model, batch, calls, trace>>

\* optimizer.zero_grad()
train_zero_grad ==
    /\ frame.fn = "train"
    /\ frame.pc = "zero_grad"
    /\ session' = [session EXCEPT !.grad = <<>>, !.log = Logged("zero_grad")]
    /\ frame' = [frame EXCEPT !.pc = "forward"]
    /\ UNCHANGED <<mnist, dataset, rng, model, batch, calls, ret, trace>>

\* output = model(data, query)
train_forward ==
    /\ frame.fn = "train"
    /\ frame.pc = "forward"
    /\ LET r == ForwardResult(model, frame.sample_batched.x, frame.sample_batched.query)
       IN IF r.exc # "none"
          THEN Raise("train", r.exc)
          ELSE /\ frame' = [frame EXCEPT !.pc = "loss", !.output = r.val]
               /\ session' = [session EXCEPT !.log = Logged("forward")]
               /\ UNCHANGED ret
    /\ UNCHANGED <<mnist, dataset, rng, model, batch, calls, trace>>

\* loss = criterion(output, target)
train_loss ==
    /\ frame.fn = "train"
    /\ frame.pc = "loss"
    /\ LET r == CrossEntropyLoss(frame.output, frame.sample_batched.y)
       IN IF r.exc # "none"
          THEN \E exc \in LossErrors : Raise("train", exc)
          ELSE /\ frame' = [frame EXCEPT !.pc = "backward", !.loss = r.val]
               /\ session' = [session EXCEPT !.log = Logged("loss")]
               /\ UNCHANGED ret
    /\ UNCHANGED <<mnist, dataset, rng, model, batch, calls, trace>>

\* loss.backward(): the batch's gradient is added to what is there
train_backward ==
    /\ frame.fn = "train"
    /\ frame.pc = "backward"
    /\ session' = [session EXCEPT !.grad = Append(@, frame.batch_idx),
                                  !.log = Logged("backward")]
    /\ frame' = [frame EXCEPT !.pc = "step"]
    /\ UNCHANGED <<mnist, dataset, rng, model, batch, calls, ret, trace>>

\* optimizer.step()
train_step ==
    /\ frame.fn = "train"
    /\ frame.pc = "step"
    /\ model' = AdamStep(model, session.grad)
    /\ session' = [session EXCEPT !.steps = @ + 1, !.log = Logged("step")]
    /\ frame' = [frame EXCEPT !.pc = "append"]
    /\ UNCHANGED <<mnist, dataset, rng, batch, calls, ret, trace>>

\* loss_values.append(loss.detach().cpu().item()), and the end of the loop body
train_append ==
    /\ frame.fn = "train"
    /\ frame.pc = "append"
    /\ frame' = [frame EXCEPT
          !.pc = "for",
          !.loss_values = Append(@, [batch |-> frame.batch_idx, loss |-> frame.loss]),
          !.batch_idx = @ + 1]
    /\ UNCHANGED <<mnist, dataset, rng, model, batch, calls, ret, trace, session>>

\* return loss_values, assigned to the cell's loss_values
train_return ==
    /\ frame.fn = "train"
    /\ frame.pc = "return"
    /\ ret' = Returned("train", <<session.epoch>>, frame.loss_values)
    /\ session' = [session EXCEPT !.loss_values = frame.loss_values]
    /\ frame' = NoFrame
    /\ UNCHANGED <<mnist, dataset, rng, model, batch, calls, trace>>

\* loss_history += loss_values, then the next epoch's call of train or the
\* end of the cell
TrainingCell_loop ==
    /\ frame.fn = "none"
    /\ session.ready
    /\ session.cell = "training"
    /\ IF session.epoch < NumEpochs
       THEN /\ frame' = TrainFrame(SamplerOrder(MNISTAttentionDataset_lenOf(mnist),
                                                TRUE, session.torch_rng))
            /\ session' = [session EXCEPT
                  !.loss_history = @ \o session.loss_values,
                  !.epoch = @ + 1, !.training = TRUE, !.log = <<>>,
                  !.torch_rng = RngNext(@)]
       ELSE /\ frame' = frame
            /\ session' = [session EXCEPT
                  !.loss_history = @ \o session.loss_values,
                  !.cell = "none"]
    /\ UNCHANGED <<mnist, dataset, rng, model, batch, calls, ret, trace>>

\* evaluate(model, device, test_loader) is called: model.eval(), total = 0.,
\* ok = 0.
evaluate_call ==
    /\ session.ready
    /\ frame.fn = "none"
    /\ session.cell = "none"
    /\ session.cells < MaxCells
    /\ frame' = EvaluateFrame(SamplerOrder(MNISTAttentionDataset_lenOf(mnist), FALSE,
                                           session.torch_rng))
    /\ session' = [session EXCEPT !.cells = @ + 1, !.training = FALSE]
    /\ UNCHANGED <<mnist, dataset, rng, model, batch, calls, ret, trace>>

\* for i_batch, sample_batched in enumerate(test_loader)
evaluate_for ==
    /\ frame.fn = "evaluate"
    /\ frame.pc = "for"
    /\ LET idxs == BatchIndices(frame.order, session.test_bs, frame.batch_idx)
           got  == FetchSamples(mnist, dataset, idxs, rng, <<>>)
       IN IF idxs = <<>>
          THEN /\ frame' = [frame EXCEPT !.pc = "print"]
               /\ UNCHANGED <<rng, ret, session>>
          ELSE IF got.exc # "none"
          THEN /\ rng' = got.rng
               /\ Raise("evaluate", got.exc)
          ELSE /\ rng' = got.rng
               /\ frame' = [frame EXCEPT
                     !.pc = "forward",
                     !.sample_batched =
                         Collate(got.samples, dataset.num_inputs, ImgSide * ImgSide)]
               /\ UNCHANGED <<ret, session>>
    /\ UNCHANGED <<mnist, dataset, model, batch, calls, trace>>

\* output = model(data, query)
evaluate_forward ==
    /\ frame.fn = "evaluate"
    /\ frame.pc = "forward"
    /\ LET r == ForwardResult(model, frame.sample_batched.x, frame.sample_batched.query)
       IN IF r.exc # "none"
          THEN Raise("evaluate", r.exc)
          ELSE /\ frame' = [frame EXCEPT !.pc = "argmax", !.output = r.val]
               /\ UNCHANGED <<ret, session>>
    /\ UNCHANGED <<mnist, dataset, rng, model, batch, calls, trace>>

\* pred = np.argmax(output.detach().cpu().numpy(), axis=1)
evaluate_argmax ==
    /\ frame.fn = "evaluate"
    /\ frame.pc = "argmax"
    /\ LET r == ArgMaxAxis1(frame.output)
       IN IF r.exc # "none"
          THEN Raise("evaluate", r.exc)
          ELSE /\ frame' = [frame EXCEPT !.pc = "count", !.pred = r.val]
               /\ UNCHANGED <<ret, session>>
    /\ UNCHANGED <<mnist, dataset, rng, model, batch, calls, trace>>

\* ok += np.sum(pred == target); total += len(test_loader)
evaluate_count ==
    /\ frame.fn = "evaluate"
    /\ frame.pc = "count"
    /\ LET target == frame.sample_batched.y
           hits   == Cardinality({b \in 1..Len(target) : frame.pred[b] = target[b]})
       IN frame' = [frame EXCEPT
             !.pc = "for",
             !.ok = @ + hits,
             !.total = @ + LoaderLen(MNISTAttentionDataset_lenOf(mnist), session.test_bs),
             !.batch_idx = @ + 1]
    /\ UNCHANGED <<mnist, dataset, rng, model, batch, calls, ret, trace, session>>

\* print('Accuracy = ', ok/total): the quotient printed is kept as the pair
evaluate_print ==
    /\ frame.fn = "evaluate"
    /\ frame.pc = "print"
    /\ IF frame.total = 0
       THEN Raise("evaluate", "ZeroDivisionError")
       ELSE /\ ret' = Returned("evaluate", <<>>, NoValue)
            /\ session' = [session EXCEPT
                  !.printed = [ok |-> frame.ok, total |-> frame.total]]
            /\ frame' = NoFrame
    /\ UNCHANGED <<mnist, dataset, rng, model, batch, calls, trace>>

InitTraining ==
    /\ mnist = Corpus({})
    /\ rng = 0
    /\ \E num_inputs \in 2..MaxNumInputs :
          /\ dataset = NewDataset(mnist, num_inputs)
          /\ model = NewModel(ImgSide * ImgSide, num_inputs, HiddenDim, NumInits)
    /\ batch = NoBatch
    /\ calls = 0
    /\ ret = Returned("start", <<>>, NoValue)
    /\ trace = <<>>
    /\ frame = NoFrame
    /\ \E train_bs, test_bs \in 1..MaxLoaderBatch :
          session = [ready |-> TRUE, notebook |-> "attention",
                     train_bs |-> train_bs, test_bs |-> test_bs,
                     cell |-> "none", cells |-> 0, epoch |-> 0,
                     loss_history |-> <<>>, loss_values |-> <<>>,
                     grad |-> <<>>, steps |-> 0, training |-> TRUE,
                     printed |-> [ok |-> 0, total |-> 0], log |-> <<>>,
                     torch_rng |-> 0]

NextTraining ==
    \/ TrainingCell_run
    \/ train_for
    \/ train_zero_grad
    \/ train_forward
    \/ train_loss
    \/ train_backward
    \/ train_step
    \/ train_append
    \/ train_return
    \/ TrainingCell_loop
    \/ evaluate_call
    \/ evaluate_for
    \/ evaluate_forward
    \/ evaluate_argmax
    \/ evaluate_count
    \/ evaluate_print

SpecTraining == InitTraining /\ [][NextTraining]_vars

----------------------------------------------------------------------------
(* The MLP notebook: class FCModel, validate, train and the training loop.  *)
(* The body of FCModel's nn.Sequential is left to the reader of the         *)
(* notebook; it is taken to be 1..MaxLayers linear layers with ReLU between *)
(* them (the notebook's recorded output counts the parameters of three).    *)
(* The notebook has its own interpreter: mnist holds Fashion-MNIST, model   *)
(* the FCModel, frame and session the locals and globals of this notebook.  *)

\* nn.Linear(in_features, out_features) after initialize_parameters(model):
\* nn.init.ones_ on the weights, nn.init.zeros_ on the biases
OnesLinear(in_features, out_features) ==
    [weight |-> [h \in 1..out_features |-> [d \in 1..in_features |-> FP]],
     bias   |-> [h \in 1..out_features |-> 0]]

\* FCModel(input_size, hidden_size, output_size) of num_layers linear layers
NewFCModel(input_size, hidden_size, output_size, num_layers) ==
    [built |-> TRUE,
     input_size |-> input_size,
     network |-> [l \in 1..num_layers |->
                    OnesLinear(IF l = 1 THEN input_size ELSE hidden_size,
                               IF l = num_layers THEN output_size ELSE hidden_size)]]

\* nn.ReLU on a vector
relu(v) == [k \in 1..Len(v) |-> IF v[k] > 0 THEN v[k] ELSE 0]

\* self.network(x) for one row x, from layer l on
RECURSIVE Sequential(_, _, _)
Sequential(layers, v, l) ==
    IF l > Len(layers) THEN v
    ELSE IF l = Len(layers) THEN Affine(layers[l], v)
    ELSE Sequential(layers, relu(Affine(layers[l], v)), l + 1)

\* FCModel.forward: x.view(-1, self.input_size), then the network row by row
FCForward(self, x) ==
    IF Len(x.data) % self.input_size # 0
    THEN Err("RuntimeError")
    ELSE LET B   == Len(x.data) \div self.input_size
             out == Len(self.network[Len(self.network)].weight)
             row(b) == Sequential(self.network,
                                  SubSeq(x.data, (b - 1) * self.input_size + 1,
                                         b * self.input_size), 1)
         IN Ok(Tensor(<<B, out>>, Concat([b \in 1..B |-> row(b)])))

\* a batch of the loader: the images as ToTensor leaves them, and the labels
FCBatch(m, idxs) ==
    [data   |-> Tensor(<<Len(idxs), 1, ImgSide, ImgSide>>,
                       Concat([b \in 1..Len(idxs) |->
                                 Normalise(flatten(m.data[idxs[b] + 1]))])),
     target |-> [b \in 1..Len(idxs) |-> m.targets[idxs[b] + 1]]]

\* optimizer.step() of torch.optim.SGD: the parameters move when a gradient
\* is there
SGDStep(self, grad) ==
    IF grad = <<>> THEN self
    ELSE [self EXCEPT !.network[1].weight[1][1] = @ - 1]

\* the locals of train(epoch, criterion, model, optimizer, loader)
FCTrainFrame(order) ==
    [fn |-> "fc_train", pc |-> "for", order |-> order, batch_idx |-> 0,
     batch |-> NoValue, output |-> NoValue, loss |-> 0, total_loss |-> 0]

\* the locals of validate(criterion, model, loader)
ValidateFrame(order) ==
    [fn |-> "validate", pc |-> "for", order |-> order, batch_idx |-> 0,
     batch |-> NoValue, output |-> NoValue, loss |-> 0, val_loss |-> 0,
     correct |-> 0]

FCLoaderOrder == SamplerOrder(Len(mnist.targets), FALSE, 0)

\* the loop cell is run: losses = {"train": [], "val": []}, and train is
\* called for epoch 0 (total_loss = 0.0, model.train())
FCLoop_run ==
    /\ session.notebook = "mlp"
    /\ frame.fn = "none"
    /\ session.cell = "none"
    /\ session.cells < MaxCells
    /\ frame' = FCTrainFrame(FCLoaderOrder)
    /\ session' = [session EXCEPT !.cell = "loop", !.cells = @ + 1, !.epoch = 0,
                                  !.losses = [train |-> <<>>, val |-> <<>>],
                                  !.training = TRUE]
    /\ UNCHANGED <<mnist, dataset, rng, model, batch, calls, ret, trace>>

\* for batch_idx, (data, target) in enumerate(loader)
fc_train_for ==
    /\ frame.fn = "fc_train"
    /\ frame.pc = "for"
    /\ LET idxs == BatchIndices(frame.order, session.batch_size, frame.batch_idx)
       IN IF idxs = <<>>
          THEN frame' = [frame EXCEPT !.pc = "return"]
          ELSE frame' = [frame EXCEPT !.pc = "zero_grad",
                                      !.batch = FCBatch(mnist, idxs)]
    /\ UNCHANGED <<mnist, dataset, rng, model, batch, calls, ret, trace, session>>

\* optimizer.zero_grad()
fc_train_zero_grad ==
    /\ frame.fn = "fc_train"
    /\ frame.pc = "zero_grad"
    /\ session' = [session EXCEPT !.grad = <<>>]
    /\ frame' = [frame EXCEPT !.pc = "forward"]
    /\ UNCHANGED <<mnist, dataset, rng, model, batch, calls, ret, trace>>

\* data = data.view(-1, 28*28); output = model(data)
fc_train_forward ==
    /\ frame.fn = "fc_train"
    /\ frame.pc = "forward"
    /\ LET r == FCForward(model, frame.batch.data)
       IN IF r.exc # "none"
          THEN Raise("fc_train", r.exc)
          ELSE /\ frame' = [frame EXCEPT !.pc = "loss", !.output = r.val]
               /\ UNCHANGED <<ret, session>>
    /\ UNCHANGED <<mnist, dataset, rng, model, batch, calls, trace>>

\* loss = criterion(output, target)
fc_train_loss ==
    /\ frame.fn = "fc_train"
    /\ frame.pc = "loss"
    /\ LET r == CrossEntropyLoss(frame.output, frame.batch.target)
       IN IF r.exc # "none"
          THEN \E exc \in LossErrors : Raise("fc_train", exc)
          ELSE /\ frame' = [frame EXCEPT !.pc = "backward", !.loss = r.val]
               /\ UNCHANGED <<ret, session>>
    /\ UNCHANGED <<mnist, dataset, rng, model, batch, calls, trace>>

\* loss.backward()
fc_train_backward ==
    /\ frame.fn = "fc_train"
    /\ frame.pc = "backward"
    /\ session' = [session EXCEPT !.grad = Append(@, frame.batch_idx)]
    /\ frame' = [frame EXCEPT !.pc = "step"]
    /\ UNCHANGED <<mnist, dataset, rng, model, batch, calls, ret, trace>>

\* optimizer.step()
fc_train_step ==
    /\ frame.fn = "fc_train"
    /\ frame.pc = "step"
    /\ model' = SGDStep(model, session.grad)
    /\ session' = [session EXCEPT !.steps = @ + 1]
    /\ frame' = [frame EXCEPT !.pc = "total"]
    /\ UNCHANGED <<mnist, dataset, rng, batch, calls, ret, trace>>

\* total_loss += loss.item(), and the end of the loop body
fc_train_total ==
    /\ frame.fn = "fc_train"
    /\ frame.pc = "total"
    /\ frame' = [frame EXCEPT !.pc = "for", !.total_loss = @ + frame.loss,
                              !.batch_idx = @ + 1]
    /\ UNCHANGED <<mnist, dataset, rng, model, batch, calls, ret, trace, session>>

\* return total_loss / len(loader.dataset), assigned to train_loss
fc_train_return ==
    /\ frame.fn = "fc_train"
    /\ frame.pc = "return"
    /\ IF Len(mnist.targets) = 0
       THEN Raise("fc_train", "ZeroDivisionError")
       ELSE /\ ret' = Returned("fc_train", <<session.epoch>>,
                               RoundDiv(frame.total_loss, Len(mnist.targets)))
            /\ session' = [session EXCEPT
                  !.train_loss = RoundDiv(frame.total_loss, Len(mnist.targets)),
                  !.at = "trained"]
            /\ frame' = NoFrame
    /\ UNCHANGED <<mnist, dataset, rng, model, batch, calls, trace>>

\* val_loss = validate(criterion, model, val_loader) in the loop cell:
\* val_loss = 0, correct = 0, model.eval()
FCLoop_validate ==
    /\ session.notebook = "mlp"
    /\ frame.fn = "none"
    /\ session.cell = "loop"
    /\ session.at = "trained"
    /\ frame' = ValidateFrame(FCLoaderOrder)
    /\ session' = [session EXCEPT !.training = FALSE, !.at = "validating"]
    /\ UNCHANGED <<mnist, dataset, rng, model, batch, calls, ret, trace>>

\* validate(criterion, model, val_loader) called on its own
validate_call ==
    /\ session.notebook = "mlp"
    /\ frame.fn = "none"
    /\ session.cell = "none"
    /\ session.cells < MaxCells
    /\ frame' = ValidateFrame(FCLoaderOrder)
    /\ session' = [session EXCEPT !.cells = @ + 1, !.training = FALSE]
    /\ UNCHANGED <<mnist, dataset, rng, model, batch, calls, ret, trace>>

\* for data, target in loader
validate_for ==
    /\ frame.fn = "validate"
    /\ frame.pc = "for"
    /\ LET idxs == BatchIndices(frame.order, session.batch_size, frame.batch_idx)
       IN IF idxs = <<>>
          THEN frame' = [frame EXCEPT !.pc = "return"]
          ELSE frame' = [frame EXCEPT !.pc = "forward",
                                      !.batch = FCBatch(mnist, idxs)]
    /\ UNCHANGED <<mnist, dataset, rng, model, batch, calls, ret, trace, session>>

\* data = data.view(-1, 28*28); output = model(data)
validate_forward ==
    /\ frame.fn = "validate"
    /\ frame.pc = "forward"
    /\ LET r == FCForward(model, frame.batch.data)
       IN IF r.exc # "none"
          THEN Raise("validate", r.exc)
          ELSE /\ frame' = [frame EXCEPT !.pc = "loss", !.output = r.val]
               /\ UNCHANGED <<ret, session>>
    /\ UNCHANGED <<mnist, dataset, rng, model, batch, calls, trace>>

\* faulty variant: the loss is followed by the optimizer's step, as in train
validate_loss_step ==
    /\ frame.fn = "validate"
    /\ frame.pc = "loss"
    /\ LET r == CrossEntropyLoss(frame.output, frame.batch.target)
       IN IF r.exc # "none"
          THEN /\ \E exc \in LossErrors : Raise("validate", exc)
               /\ model' = model
          ELSE /\ frame' = [frame EXCEPT !.pc = "count", !.loss = r.val,
                                         !.val_loss = @ + r.val]
               /\ model' = SGDStep(model, <<frame.batch_idx>>)
               /\ UNCHANGED <<ret, session>>
    /\ UNCHANGED <<mnist, dataset, rng, batch, calls, trace>>

\* loss = criterion(output, target); val_loss += loss.item()
validate_loss ==
    /\ frame.fn = "validate"
    /\ frame.pc = "loss"
    /\ LET r == CrossEntropyLoss(frame.output, frame.batch.target)
       IN IF r.exc # "none"
          THEN \E exc \in LossErrors : Raise("validate", exc)
          ELSE /\ frame' = [frame EXCEPT !.pc = "count", !.loss = r.val,
                                         !.val_loss = @ + r.val]
               /\ UNCHANGED <<ret, session>>
    /\ UNCHANGED <<mnist, dataset, rng, model, batch, calls, trace>>

\* pred = output.data.max(1, keepdim=True)[1];
\* correct += pred.eq(target.view_as(pred)).sum().item()
validate_count ==
    /\ frame.fn = "validate"
    /\ frame.pc = "count"
    /\ LET pred == ArgMaxAxis1(frame.output).val
           hits == Cardinality({b \in 1..Len(frame.batch.target) :
                                   pred[b] = frame.batch.target[b]})
       IN frame' = [frame EXCEPT !.pc = "for", !.correct = @ + hits,
                                 !.batch_idx = @ + 1]
    /\ UNCHANGED <<mnist, dataset, rng, model, batch, calls, ret, trace, session>>

\* val_loss /= len(loader.dataset); the accuracy is printed; return val_loss
validate_return ==
    /\ frame.fn = "validate"
    /\ frame.pc = "return"
    /\ IF Len(mnist.targets) = 0
       THEN Raise("validate", "ZeroDivisionError")
       ELSE /\ ret' = Returned("validate", <<>>,
                               RoundDiv(frame.val_loss, Len(mnist.targets)))
            /\ session' = [session EXCEPT
                  !.val_loss = RoundDiv(frame.val_loss, Len(mnist.targets)),
                  !.correct = frame.correct,
                  !.at = IF session.cell = "loop" THEN "validated" ELSE @]
            /\ frame' = NoFrame
    /\ UNCHANGED <<mnist, dataset, rng, model, batch, calls, trace>>

\* losses["train"].append(train_loss); losses["val"].append(val_loss); then
\* the next epoch's call of train, or the end of the cell
FCLoop_next ==
    /\ session.notebook = "mlp"
    /\ frame.fn = "none"
    /\ session.cell = "loop"
    /\ session.at = "validated"
    /\ IF session.epoch + 1 < NumEpochs
       THEN /\ frame' = FCTrainFrame(FCLoaderOrder)
            /\ session' = [session EXCEPT
                  !.losses = [train |-> Append(@.train, session.train_loss),
                              val   |-> Append(@.val, session.val_loss)],
                  !.epoch = @ + 1, !.training = TRUE, !.at = "training"]
       ELSE /\ frame' = frame
            /\ session' = [session EXCEPT
                  !.losses = [train |-> Append(@.train, session.train_loss),
                              val   |-> Append(@.val, session.val_loss)],
                  !.cell = "none", !.at = "idle"]
    /\ UNCHANGED <<mnist, dataset, rng, model, batch, calls, ret, trace>>

InitFC ==
    /\ mnist = Corpus({})
    /\ dataset = NoDataset
    /\ rng = 0
    /\ \E num_layers \in 1..MaxLayers :
          model = NewFCModel(ImgSide * ImgSide, HiddenDim, NumClasses, num_layers)
    /\ batch = NoBatch
    /\ calls = 0
    /\ ret = Returned("start", <<>>, NoValue)
    /\ trace = <<>>
    /\ frame = NoFrame
    /\ \E batch_size \in 1..MaxBatch :
          session = [ready |-> FALSE, notebook |-> "mlp", batch_size |-> batch_size,
                     cell |-> "none", cells |-> 0, epoch |-> 0, at |-> "idle",
                     losses |-> [train |-> <<>>, val |-> <<>>],
                     train_loss |-> 0, val_loss |-> 0, correct |-> 0,
                     grad |-> <<>>, steps |-> 0, training |-> TRUE]

NextFC ==
    \/ FCLoop_run
    \/ fc_train_for
    \/ fc_train_zero_grad
    \/ fc_train_forward
    \/ fc_train_loss
    \/ fc_train_backward
    \/ fc_train_step
    \/ fc_train_total
    \/ fc_train_return
    \/ FCLoop_validate
    \/ validate_call
    \/ validate_for
    \/ validate_forward
    \/ validate_loss
    \/ validate_count
    \/ validate_return
    \/ FCLoop_next

\* either notebook, each in an interpreter of its own
InitNotebooks == InitTraining \/ InitFC

NextNotebooks == NextTraining \/ NextFC

SpecNotebooks == InitNotebooks /\ [][NextNotebooks]_vars

----------------------------------------------------------------------------
(* Properties of the dataset, checked under SpecDataset *)

\* the corpus position a (possibly negative) valid Python index selects
ValidIdx(idx) == idx >= -Len(mnist.targets) /\ idx < Len(mnist.targets)
CorpusPos(idx) == IF idx < 0 THEN idx + Len(mnist.targets) + 1 ELSE idx + 1
QueryClass(idx) == mnist.targets[CorpusPos(idx)]

SampleReturned == ret.op = "__getitem__" /\ ret.exc = "none"

\* row is one of the items of the pool of class k, and the corpus labels it k
FromPool(row, k) ==
    /\ row.item >= 0
    /\ mnist.targets[row.item + 1] = k
    /\ \E i \in 1..Len(dataset.data[k]) :
          /\ dataset.data[k][i].item = row.item
          /\ flatten(dataset.data[k][i].px) = row.px

\* C1: every sample returned by __getitem__(idx) has 0 <= y < num_inputs and
\* its candidate x[y] is an item of the pool of class (c+1) mod 10, c being
\* the label of corpus item idx.
C1_TargetIsSuccessor ==
    SampleReturned =>
        /\ 0 <= ret.val.y
        /\ ret.val.y < dataset.num_inputs
        /\ Len(ret.val.x) = dataset.num_inputs
        /\ FromPool(ret.val.x[ret.val.y + 1], (QueryClass(ret.args[1]) + 1) % 10)

\* a query of class 9 got its target of class 0 at the last of three positions
C1_Witness ==
    /\ SampleReturned
    /\ QueryClass(ret.args[1]) = 9
    /\ dataset.num_inputs = 3
    /\ ret.val.y = 2
    /\ mnist.targets[ret.val.x[3].item + 1] = 0

\* C2: in every sample returned, every candidate at a position j # y is an
\* item of the pool of a class other than (c+1) mod 10, so exactly one
\* candidate, the one at y, is of the successor class.
C2_OthersAreDistractors ==
    SampleReturned =>
        LET succ == (QueryClass(ret.args[1]) + 1) % 10
        IN /\ \A j \in 0..(dataset.num_inputs - 1) :
                 j # ret.val.y =>
                    \E k \in (0..9) \ {succ} : FromPool(ret.val.x[j + 1], k)
           /\ Cardinality({j \in 1..Len(ret.val.x) :
                              mnist.targets[ret.val.x[j].item + 1] = succ}) = 1

\* a sample of three candidates with the target in the middle
C2_Witness ==
    /\ SampleReturned
    /\ dataset.num_inputs = 3
    /\ ret.val.y = 1
    /\ mnist.targets[ret.val.x[1].item + 1] # mnist.targets[ret.val.x[3].item + 1]

SuccessorPoolEmpty(idx) == Len(dataset.data[(QueryClass(idx) + 1) % 10]) = 0

GetItemOnEmptySuccessor ==
    /\ ret.op = "__getitem__"
    /\ ValidIdx(ret.args[1])
    /\ SuccessorPoolEmpty(ret.args[1])

\* C7 (as stated): with an empty successor pool, generating a sample fails
\* with DataUnavailableError and returns no sample.
C7_Original ==
    GetItemOnEmptySuccessor =>
        ret.exc = "DataUnavailableError" /\ ret.val = NoValue

\* C7 (amended): with an empty successor pool, generating a sample fails
\* with the ValueError of np.random.randint(0, 0) and returns no sample.
C7_FailsWithValueError ==
    GetItemOnEmptySuccessor =>
        ret.exc = "ValueError" /\ ret.val = NoValue

\* the failure happened at the last position, after two distractors were drawn
C7_Witness ==
    /\ GetItemOnEmptySuccessor
    /\ dataset.num_inputs = 3
    /\ ret.exc = "ValueError"
    /\ \E s \in 0..(RngMod - 1) :
          /\ randint(0, 3, s).val = 2
          /\ GetItemResult(mnist, dataset, ret.args[1], s).rng = rng
          /\ rng # randint(0, 3, s).rng

CorpusLacks(label) == \A k \in 1..Len(mnist.targets) : mnist.targets[k] # label

\* C8 (as stated): constructing the dataset from a corpus in which a label
\* has no item fails with ConfigurationError, and no dataset with an empty
\* class pool is ever produced.
C8_Original ==
    /\ (ret.op = "__init__" /\ \E label \in 0..9 : CorpusLacks(label))
          => ret.exc = "ConfigurationError"
    /\ dataset.built => \A label \in 0..9 : Len(dataset.data[label]) > 0

\* C8 (amended): construction never fails; the pool of every label holds
\* exactly the corpus items of that label, so it is empty for a label the
\* corpus lacks.
C8_ConstructionSucceeds ==
    ret.op = "__init__" =>
        /\ ret.exc = "none"
        /\ dataset.built
        /\ \A label \in 0..9 :
              /\ {dataset.data[label][i].item + 1 : i \in 1..Len(dataset.data[label])}
                    = {k \in 1..Len(mnist.targets) : mnist.targets[k] = label}
              /\ CorpusLacks(label) => dataset.data[label] = <<>>

\* a dataset was built from a corpus without class 6
C8_Witness ==
    /\ ret.op = "__init__"
    /\ dataset.built
    /\ CorpusLacks(6)
    /\ dataset.data[6] = <<>>
    /\ dataset.data[7] # <<>>

\* every class has an item in the corpus, as in MNIST
FullCorpus == \A label \in 0..9 : ~CorpusLacks(label)

\* the states the generator can be in when __getitem__ is entered
GeneratorStates == 0..(RngMod - 1)

\* what __getitem__(idx) returns from each state of the generator
Outcomes(idx) == {GetItemResult(mnist, dataset, idx, s) : s \in GeneratorStates}

\* the class of the candidate at position j of sample v
ClassAt(v, j) == mnist.targets[v.x[j + 1].item + 1]

\* C11: for a dataset of N candidates over a corpus with every class, the
\* target positions __getitem__ produces over the states of the generator
\* are exactly 0..N-1; with N = 1 the position is always 0 and the two draws
\* made are the position and the target's pool index, none for a distractor.
C11_TargetPositions ==
    (SampleReturned /\ FullCorpus) =>
        LET idx  == ret.args[1]
            N    == dataset.num_inputs
            outs == Outcomes(idx)
        IN /\ ret.val.y \in 0..(N - 1)
           /\ \A r \in outs : r.exc = "none"
           /\ {r.val.y : r \in outs} = 0..(N - 1)
           /\ N = 1 =>
                 \A s \in GeneratorStates :
                    LET r == GetItemResult(mnist, dataset, idx, s)
                    IN /\ r.val.y = 0
                       /\ Len(r.val.x) = 1
                       /\ ClassAt(r.val, 0) = (QueryClass(idx) + 1) % 10
                       /\ r.rng = RngNext(RngNext(s))

\* a sample of a single candidate was returned: the target at position 0
C11_Witness ==
    /\ SampleReturned
    /\ FullCorpus
    /\ dataset.num_inputs = 1
    /\ ret.val.y = 0
    /\ ClassAt(ret.val, 0) = (QueryClass(ret.args[1]) + 1) % 10

\* C12: at every distractor position each of the 9 classes other than
\* (c+1) mod 10, the query's own class c included, is drawn from some state
\* of the generator, and with two distractor positions some sample has the
\* same class at both and some sample has two different classes.
C12_DistractorClasses ==
    (SampleReturned /\ FullCorpus /\ dataset.num_inputs >= 2) =>
        LET idx  == ret.args[1]
            N    == dataset.num_inputs
            c    == QueryClass(idx)
            succ == (c + 1) % 10
            outs == Outcomes(idx)
        IN /\ \A j \in 0..(N - 1) :
                 {ClassAt(r.val, j) : r \in {o \in outs : o.val.y # j}}
                    = (0..9) \ {succ}
           /\ N >= 3 =>
                 /\ \E r \in outs : \E j1, j2 \in 0..(N - 1) :
                       /\ j1 # j2 /\ j1 # r.val.y /\ j2 # r.val.y
                       /\ ClassAt(r.val, j1) = ClassAt(r.val, j2)
                 /\ \E r \in outs : \E j1, j2 \in 0..(N - 1) :
                       /\ j1 # j2 /\ j1 # r.val.y /\ j2 # r.val.y
                       /\ ClassAt(r.val, j1) # ClassAt(r.val, j2)

\* a sample whose two distractors are both of the query's own class
C12_Witness ==
    /\ SampleReturned
    /\ FullCorpus
    /\ dataset.num_inputs = 3
    /\ ret.val.y = 0
    /\ ClassAt(ret.val, 1) = QueryClass(ret.args[1])
    /\ ClassAt(ret.val, 2) = QueryClass(ret.args[1])

\* C13: a call of __getitem__ or of __len__ leaves self.data, self.mnist
\* (data and targets) and self.num_inputs as construction left them; __len__
\* leaves the generator alone too, so the generator's state is all a sample
\* generation changes.
C13_AccessFrame ==
    [][ret'.op \in {"__getitem__", "__len__"} =>
          /\ dataset' = dataset
          /\ mnist' = mnist
          /\ ret'.op = "__len__" => rng' = rng]_vars

\* a sample was drawn and the pools are still those built from the corpus
C13_Witness ==
    /\ SampleReturned
    /\ dataset.num_inputs = 2
    /\ dataset.data = [label \in 0..9 |-> PoolOf(mnist, label)]
    /\ ret.val.x[ret.val.y + 1].item \in
          {dataset.data[ClassAt(ret.val, ret.val.y)][i].item :
              i \in 1..Len(dataset.data[ClassAt(ret.val, ret.val.y)])}

\* C16: the query of every sample returned for idx is the corpus item at idx,
\* flattened, each pixel divided by 255 (so within [0, 1]), and the target is
\* of the successor of that item's label, whatever pool indices the loop
\* assigned to its local idx.
C16_QueryIsRequestedItem ==
    SampleReturned =>
        LET pos == CorpusPos(ret.args[1])
            img == mnist.data[pos]
        IN /\ Len(ret.val.query) = ImgSide * ImgSide
           /\ \A r, col \in 1..ImgSide :
                 ret.val.query[(r - 1) * ImgSide + col]
                    = (img[r][col] * FP) \div PixelMax
           /\ \A k \in 1..Len(ret.val.query) :
                 0 <= ret.val.query[k] /\ ret.val.query[k] <= FP
           /\ ClassAt(ret.val, ret.val.y) = (mnist.targets[pos] + 1) % 10

\* the last corpus item (label 6) was requested; no pool has that many items,
\* so every index the loop assigned differs from the one requested
C16_Witness ==
    /\ SampleReturned
    /\ FullCorpus
    /\ ret.args[1] = Len(mnist.targets) - 1
    /\ dataset.num_inputs = 3
    /\ \A label \in 0..9 : Len(dataset.data[label]) < Len(mnist.targets) - 1
    /\ ret.val.query = Normalise(flatten(mnist.data[Len(mnist.targets)]))
    /\ ClassAt(ret.val, ret.val.y) = 7

\* a vector of n entries, 1 at position pos (from 0) and 0 elsewhere
OneHot(n, pos) == [j \in 1..n |-> IF j = pos + 1 THEN 1 ELSE 0]

\* C17: the ground truth y of every sample returned is a one-hot vector of
\* num_inputs entries, 1 at the position of the successor-class candidate.
C17_GroundTruthOneHot ==
    SampleReturned =>
        IF ret.val.y \in Int
        THEN FALSE
        ELSE \E pos \in 0..(dataset.num_inputs - 1) :
                /\ ret.val.y = OneHot(dataset.num_inputs, pos)
                /\ ClassAt(ret.val, pos) = (QueryClass(ret.args[1]) + 1) % 10

----------------------------------------------------------------------------
(* Properties of repeated and interleaved accesses, checked under           *)
(* SpecWorkers                                                              *)

\* C14: the sample an access returns, and the state it leaves the generator
\* in, are those __getitem__ computes from the index requested and the
\* state the generator was in at the access, whatever was returned before;
\* nothing of an earlier sample is kept and handed out again.
C14_FunctionOfIndexAndState ==
    [][Len(trace') > Len(trace) =>
          LET a == trace'[Len(trace')]
              r == GetItemResult(mnist, dataset, a.idx, rng)
          IN /\ a.at = rng
             /\ a.exc = r.exc
             /\ a.val = r.val
             /\ rng' = r.rng
             /\ ret'.exc = r.exc
             /\ ret'.val = r.val]_vars

\* one caller asked for the same index twice in a row, nothing reseeded the
\* generator in between, and got another target position and other candidates
C14_Witness ==
    /\ Len(trace) >= 2
    /\ LET a == trace[Len(trace) - 1]
           b == trace[Len(trace)]
       IN /\ a.w = b.w
          /\ a.idx = b.idx
          /\ a.exc = "none"
          /\ b.exc = "none"
          /\ b.at = GetItemResult(mnist, dataset, a.idx, a.at).rng
          /\ a.val.y # b.val.y
          /\ a.val.x # b.val.x
          /\ a.val.query = b.val.query

\* the state caller w's own generator would be in before access k, had it
\* been given one, started from the state the shared generator started in
RECURSIVE SoloState(_, _)
SoloState(w, k) ==
    IF k = 1 THEN trace[1].at
    ELSE IF trace[k - 1].w = w
         THEN GetItemResult(mnist, dataset, trace[k - 1].idx, SoloState(w, k - 1)).rng
         ELSE SoloState(w, k - 1)

----------------------------------------------------------------------------
(* Properties of training and evaluation, checked under SpecTraining *)

\* the samples a complete pass over a loader evaluates
SamplesEvaluated == MNISTAttentionDataset_lenOf(mnist)

EvaluateReturned == ret.op = "evaluate" /\ ret.exc = "none"

\* C18: when evaluate has gone through all batches, the accuracy it prints,
\* ok/total, equals ok divided by the number of samples evaluated, and lies
\* within [0, 1].
C18_AccuracyIsFraction ==
    EvaluateReturned =>
        /\ session.printed.total > 0
        /\ session.printed.ok * SamplesEvaluated
              = session.printed.ok * session.printed.total
        /\ 0 <= session.printed.ok
        /\ session.printed.ok <= session.printed.total

\* C19: the scores forward hands to the loss in train and to argmax in
\* evaluate have shape (B, num_inputs), B being the size of the batch, also
\* for a batch of one sample.
C19_ScoresAreMatrix ==
    (frame.fn \in {"train", "evaluate"} /\ frame.pc \in {"loss", "argmax"}) =>
        frame.output.shape = <<Len(frame.sample_batched.y), model.num_inputs>>

\* the statements train executes for batches 0..nb-1
TrainSteps == <<"zero_grad", "forward", "loss", "backward", "step">>
ExpectedLog(nb) ==
    [k \in 1..(nb * Len(TrainSteps)) |->
        [batch |-> (k - 1) \div Len(TrainSteps),
         op    |-> TrainSteps[((k - 1) % Len(TrainSteps)) + 1]]]

TrainBatches == LoaderLen(MNISTAttentionDataset_lenOf(mnist), session.train_bs)

\* C20: a call of train takes every batch of the loader through zero_grad,
\* forward, loss, backward and step, in that order and once each, the
\* gradient holding nothing but the batch's own when the optimizer steps,
\* and returns one loss per batch in batch order; when the training cell
\* has finished, loss_history has epochs x (number of batches) entries.
C20_TrainProtocol ==
    /\ frame.fn = "train" =>
          /\ Len(session.log) <= Len(ExpectedLog(TrainBatches))
          /\ session.log = SubSeq(ExpectedLog(TrainBatches), 1, Len(session.log))
          /\ frame.pc = "step" => session.grad = <<frame.batch_idx>>
    /\ (ret.op = "train" /\ frame.fn = "none") =>
          /\ ret.exc = "none"
          /\ session.log = ExpectedLog(TrainBatches)
          /\ session.steps = session.epoch * TrainBatches
          /\ Len(ret.val) = TrainBatches
          /\ \A k \in 1..Len(ret.val) : ret.val[k].batch = k - 1
          /\ session.cell = "none" =>
                Len(session.loss_history) = NumEpochs * TrainBatches

----------------------------------------------------------------------------
(* Properties of both notebooks, checked under SpecNotebooks *)

Evaluating(f) == f.fn \in {"evaluate", "validate"}

\* C21: in either notebook, a step that changes the model's parameters is the
\* optimizer.step() of a call of train, and no step of evaluate or validate,
\* its call and its return included, changes them; so the parameters after
\* evaluate or validate are those before it.
C21_OnlyStepChangesParameters ==
    [][/\ model' # model =>
             /\ frame.fn \in {"train", "fc_train"}
             /\ frame.pc = "step"
             /\ frame'.fn = frame.fn
       /\ (Evaluating(frame) \/ Evaluating(frame')) => model' = model]_vars

\* evaluate returned after a training that had moved the parameters, and the
\* parameters are those the optimizer's steps left
C21_Witness ==
    /\ EvaluateReturned
    /\ frame = NoFrame
    /\ ret.op = "evaluate"
    /\ session.steps > 0
    /\ LET start == NewModel(ImgSide * ImgSide, model.num_inputs, HiddenDim, NumInits)
       IN /\ model # start
          /\ model = [start EXCEPT !.fc_v.weight[1][1] = @ - session.steps]

----------------------------------------------------------------------------
(* Properties of the scorer, checked under SpecScorer *)

ForwardCall == ret.op = "forward"
ForwardReturned == ForwardCall /\ ret.exc = "none"

CallX == ret.args[1]               \* the candidates of the last forward call
CallQuery == ret.args[2]           \* its queries
CallB == CallX.shape[1]            \* its batch size
CallN == CallX.shape[2]            \* its number of candidates
DimsOK == /\ CallX.shape[3] = model.input_dim
          /\ CallQuery.shape[2] = model.input_dim

QueryVec(b) == [d \in 1..CallQuery.shape[2] |->
                   CallQuery.data[b * CallQuery.shape[2] + d]]
CandidateVec(b, i) == [d \in 1..CallX.shape[3] |-> At3(CallX, b, i, d - 1)]

\* the number of scores returned for each query, and the i-th of query b
ScoresPerQuery == Len(ret.val.data) \div CallB
ScoreAt(b, i) == ret.val.data[b * ScoresPerQuery + i + 1]

\* fc_v(tanh(tanh(fc_q(q)) + tanh(fc_k(k)))) for one query and one candidate
ScoreOf(self, q, k) ==
    LET pq == Affine(self.fc_q, q)
        pk == Affine(self.fc_k, k)
        combined == [h \in 1..Len(pq) |-> Tanh(Tanh(pq[h]) + Tanh(pk[h]))]
    IN Affine(self.fc_v, combined)[1]

\* the product of a layer's weight with a vector, without the bias term
NoBias(layer, v) ==
    [h \in 1..Len(layer.weight) |-> RoundDiv(Dot(layer.weight[h], v, Len(v)), FP)]

\* w_v . tanh(tanh(W_q . q) + tanh(W_k . k)), the weights alone
ScoreOfWeights(self, q, k) ==
    LET pq == NoBias(self.fc_q, q)
        pk == NoBias(self.fc_k, k)
        combined == [h \in 1..Len(pq) |-> Tanh(Tanh(pq[h]) + Tanh(pk[h]))]
    IN NoBias(self.fc_v, combined)[1]

\* C3 (as stated): for any N >= 1 candidates the scorer returns exactly N
\* scores per query, whatever num_inputs the model was constructed with.
C3_Original ==
    (ForwardCall /\ DimsOK /\ CallN >= 1) =>
        ret.exc = "none" /\ Len(ret.val.data) = CallB * CallN

\* C3 (amended): for N >= 1 candidates the scorer returns exactly N scores
\* per query, in candidate order, when the model's num_inputs is N or 1;
\* for N = 1 and another num_inputs it returns num_inputs scores, all the
\* score of the one candidate; for N >= 2 and num_inputs not in {1, N} it
\* fails with a RuntimeError.
C3_ScoreCount ==
    (ForwardCall /\ DimsOK /\ CallN >= 1) =>
        IF model.num_inputs = CallN \/ model.num_inputs = 1
        THEN /\ ret.exc = "none"
             /\ Len(ret.val.data) = CallB * CallN
             /\ \A b \in 0..(CallB - 1), i \in 0..(CallN - 1) :
                   ret.val.data[b * CallN + i + 1]
                      = ScoreOf(model, QueryVec(b), CandidateVec(b, i))
        ELSE IF CallN = 1
        THEN /\ ret.exc = "none"
             /\ Len(ret.val.data) = CallB * model.num_inputs
             /\ \A b \in 0..(CallB - 1), i \in 0..(model.num_inputs - 1) :
                   ret.val.data[b * model.num_inputs + i + 1]
                      = ScoreOf(model, QueryVec(b), CandidateVec(b, 0))
        ELSE ret.exc = "RuntimeError" /\ ret.val = NoValue

\* three candidates scored by a model built for three, the scores not all equal
C3_Witness ==
    /\ ForwardReturned
    /\ DimsOK
    /\ CallN = 3
    /\ model.num_inputs = 3
    /\ CallB = 2
    /\ Len(ret.val.data) = 6
    /\ ret.val.data[1] # ret.val.data[2]

CandidateOrders(n) == {p \in [1..n -> 1..n] : \A i, j \in 1..n : p[i] = p[j] => i = j}

\* the candidates of every batch row reordered by p
PermuteCandidates(x, p) ==
    LET f(b, i, d) == At3(x, b, p[i + 1] - 1, d)
    IN Tensor(<<x.shape[1], x.shape[2], x.shape[3]>>,
              [k \in 1..((x.shape[1]) * (x.shape[2]) * (x.shape[3])) |->
                  f(Ix1(k, x.shape[2], x.shape[3]), Ix2(k, x.shape[2], x.shape[3]), Ix3(k, x.shape[3]))])

\* the scores of every batch row reordered by p
PermuteScores(t, B, N, p) ==
    Tensor(t.shape,
           [k \in 1..(B * N) |-> t.data[((k - 1) \div N) * N + p[((k - 1) % N) + 1]]])

\* C4: for fixed weights and query, permuting the candidate sequence permutes
\* the score vector in the same way.
C4_PermutationEquivariant ==
    (ForwardReturned /\ Len(ret.val.data) = CallB * CallN) =>
        \A p \in CandidateOrders(CallN) :
            ForwardResult(model, PermuteCandidates(CallX, p), CallQuery)
                = Ok(PermuteScores(ret.val, CallB, CallN, p))

\* three candidates with three different scores, so that permuting them shows
C4_Witness ==
    /\ ForwardReturned
    /\ CallN = 3
    /\ CallB = 1
    /\ Len(ret.val.data) = 3
    /\ ret.val.data[1] # ret.val.data[2]
    /\ ret.val.data[2] # ret.val.data[3]
    /\ ret.val.data[1] # ret.val.data[3]

\* C5 (as stated): every score returned is w_v applied to
\* tanh(tanh(W_q . query) + tanh(W_k . candidates[i])), raw.
C5_Original ==
    ForwardReturned =>
        \A b \in 0..(CallB - 1), i \in 0..(CallN - 1) :
            i < ScoresPerQuery =>
                ScoreAt(b, i) = ScoreOfWeights(model, QueryVec(b), CandidateVec(b, i))

\* C5 (amended): every score returned is fc_v applied to
\* tanh(tanh(fc_q(query)) + tanh(fc_k(candidates[i]))), where each layer adds
\* its bias to the product with its weight; the same layers serve every
\* position and the scores are returned raw.
C5_ScoreFormula ==
    ForwardReturned =>
        \A b \in 0..(CallB - 1), i \in 0..(CallN - 1) :
            i < ScoresPerQuery =>
                ScoreAt(b, i) = ScoreOf(model, QueryVec(b), CandidateVec(b, i))

\* scores of a model with non-zero biases that differ from the bias-free ones
C5_Witness ==
    /\ ForwardReturned
    /\ CallN = 2
    /\ CallB = 2
    /\ ScoresPerQuery = 2
    /\ model.fc_q.bias[1] # 0
    /\ \E b \in 0..1, i \in 0..1 :
          ScoreAt(b, i) # ScoreOfWeights(model, QueryVec(b), CandidateVec(b, i))

\* C6: a forward call changes no parameter of the model, and a forward call
\* repeated with the same arguments ends as the one before it did.
C6_Deterministic ==
    [][ret'.op = "forward" =>
          /\ model' = model
          /\ (ret.op = "forward" /\ ret.args = ret'.args) =>
                (ret'.exc = ret.exc /\ ret'.val = ret.val)]_vars

\* the same call has been made twice in a row and returned scores
C6_Witness ==
    /\ ForwardReturned
    /\ calls = 2
    /\ CallN = 2
    /\ Len(ret.val.data) = CallB * 2

BadScorerInput == ~DimsOK \/ CallN = 0

\* C9 (as stated): the scorer fails with ShapeMismatchError, returning no
\* score vector, when the query or a candidate has not length input_dim or
\* there is no candidate.
C9_Original ==
    (ForwardCall /\ BadScorerInput) =>
        ret.exc = "ShapeMismatchError" /\ ret.val = NoValue

\* C9 (amended): the scorer fails with torch's RuntimeError, returning no
\* score vector, when the query or the candidates have not length input_dim,
\* and when there is no candidate and the model's num_inputs is 2 or more;
\* with no candidate and num_inputs = 1 it returns an empty score vector.
C9_FailsWithRuntimeError ==
    (ForwardCall /\ BadScorerInput) =>
        IF DimsOK /\ model.num_inputs = 1
        THEN /\ ret.exc = "none"
             /\ ret.val.data = <<>>
             /\ ret.val.shape = (IF CallB = 1 THEN <<0>> ELSE <<CallB, 0>>)
        ELSE ret.exc = "RuntimeError" /\ ret.val = NoValue

\* two candidates of the right length and a query of the wrong one
C9_Witness ==
    /\ ForwardCall
    /\ CallN = 2
    /\ model.num_inputs = 2
    /\ CallX.shape[3] = model.input_dim
    /\ CallQuery.shape[2] # model.input_dim
    /\ ret.exc = "RuntimeError"

\* C10: for a single candidate the scorer returns, for each query, a score
\* vector of exactly one element: the result keeps the candidate dimension.
C10_SingleCandidateKeepsDim ==
    (ForwardCall /\ DimsOK /\ CallN = 1 /\ model.num_inputs = 1) =>
        ret.exc = "none" /\ ret.val.shape = <<CallB, 1>>

====
